---- MODULE Spec2Model ----
(***************************************************************************)
(* Model of the on-screen ruler (src/src/main.rs, src/src/geom.rs): the    *)
(* event loop of main, the drag constraint solver handle_drag, the arc     *)
(* clamp closest_point_below_line_on_circle and compute_window_geometry.   *)
(*                                                                         *)
(* The program computes in f64.  The model computes in a binary floating   *)
(* point format of the same shape (sign, integer mantissa, exponent, every *)
(* operation rounded to nearest, ties to even) whose mantissa has MantBits *)
(* bits instead of 53, so that every intermediate value fits TLC's         *)
(* integers.  A number is <<m, e>> and stands for m * 2^e, with            *)
(* 2^(MantBits-1) <= |m| < 2^MantBits, or <<0, 0>> for zero.               *)
(***************************************************************************)
EXTENDS Integers, Sequences, FiniteSets, TLC

\* Width of the mantissa of the model's floating point numbers.
MantBits == 14

\* ------------------------------------------------------------------ f64

Pow2(k) == 2 ^ k

Abs(i) == IF i < 0 THEN -i ELSE i

Sgn(i) == IF i < 0 THEN -1 ELSE 1

\* The number of bits of n, 0 <= n < 2^31.
BitLen(n) == Cardinality({k \in 0..30 : Pow2(k) <= n})

\* The float nearest to sign * n * 2^e (n >= 0); sticky says that the exact
\* value has further nonzero bits below n's lowest bit.
FRound(sign, n, e, sticky) ==
  IF n = 0 THEN <<0, 0>>
  ELSE LET L == BitLen(n)
       IN IF L <= MantBits
          THEN <<sign * n * Pow2(MantBits - L), e - (MantBits - L)>>
          ELSE LET k    == L - MantBits
                   q    == n \div Pow2(k)
                   r    == n % Pow2(k)
                   half == Pow2(k - 1)
                   up   == r > half \/ (r = half /\ (sticky \/ q % 2 = 1))
                   q1   == IF up THEN q + 1 ELSE q
               IN IF q1 = Pow2(MantBits)
                  THEN <<sign * Pow2(MantBits - 1), e + k + 1>>
                  ELSE <<sign * q1, e + k>>

F(i) == FRound(Sgn(i), Abs(i), 0, FALSE)

FNeg(a) == <<-a[1], a[2]>>

FMul(a, b) == FRound(Sgn(a[1]) * Sgn(b[1]), Abs(a[1]) * Abs(b[1]), a[2] + b[2], FALSE)

FAdd(a, b) ==
  IF a[1] = 0 THEN b
  ELSE IF b[1] = 0 THEN a
  ELSE LET hi == IF a[2] < b[2] THEN b ELSE a
           lo == IF a[2] < b[2] THEN a ELSE b
           d  == hi[2] - lo[2]
       IN IF d > MantBits + 1 THEN hi
          ELSE LET n == hi[1] * Pow2(d) + lo[1]
               IN FRound(Sgn(n), Abs(n), lo[2], FALSE)

FSub(a, b) == FAdd(a, FNeg(b))

\* a / b for b # 0: MantBits + 1 bits of quotient below the integer part, and
\* whether a remainder is left.
FDiv(a, b) ==
  IF a[1] = 0 THEN <<0, 0>>
  ELSE LET n == Abs(a[1]) * Pow2(MantBits + 1)
       IN FRound(Sgn(a[1]) * Sgn(b[1]), n \div Abs(b[1]), a[2] - b[2] - (MantBits + 1),
                 n % Abs(b[1]) # 0)

\* The integer square root of n, 0 <= n < 2^(MantBits + 1).
ISqrt(n) == CHOOSE r \in 0..Pow2(MantBits \div 2 + 1) : r * r <= n /\ n < (r + 1) * (r + 1)

\* k more bits of a square root, from <<root, remainder>>.
RECURSIVE SqrtSteps(_, _, _)
SqrtSteps(root, rem, k) ==
  IF k = 0 THEN <<root, rem>>
  ELSE IF rem > root THEN SqrtSteps(2 * root + 1, 4 * rem - (4 * root + 1), k - 1)
       ELSE SqrtSteps(2 * root, 4 * rem, k - 1)

\* sqrt(a) for a >= 0.
FSqrt(a) ==
  IF a[1] = 0 THEN <<0, 0>>
  ELSE LET m  == IF a[2] % 2 = 0 THEN a[1] ELSE 2 * a[1]
           e  == IF a[2] % 2 = 0 THEN a[2] ELSE a[2] - 1
           r0 == ISqrt(m)
           k  == MantBits + 1 - BitLen(r0)
           rr == SqrtSteps(r0, m - r0 * r0, k)
       IN FRound(1, rr[1], (e \div 2) - k, rr[2] # 0)

FLt(a, b) ==
  IF a[1] # 0 /\ b[1] # 0 /\ (a[1] > 0) = (b[1] > 0)
  THEN IF a[1] > 0
       THEN a[2] < b[2] \/ (a[2] = b[2] /\ a[1] < b[1])
       ELSE a[2] > b[2] \/ (a[2] = b[2] /\ a[1] < b[1])
  ELSE a[1] < b[1]

FMax(a, b) == IF FLt(a, b) THEN b ELSE a

FMin(a, b) == IF FLt(b, a) THEN b ELSE a

\* f64::signum: 1.0 for a number >= +0.0, -1.0 for a negative one.
Signum(a) == IF a[1] < 0 THEN F(-1) ELSE F(1)

\* The integer part of a, toward zero.
Trunc(a) ==
  IF a[2] >= 0 THEN a[1] * Pow2(a[2])
  ELSE IF -a[2] >= 31 THEN 0
  ELSE Sgn(a[1]) * (Abs(a[1]) \div Pow2(-a[2]))

\* ---------------------------------------------------------------- DVec2

Zero == <<0, 0>>

\* DVec2::ZERO, DVec2::X, DVec2::Y.
Zero2 == <<Zero, Zero>>

UnitX == <<F(1), Zero>>

UnitY == <<Zero, F(1)>>

\* DVec2::new(x as f64, y as f64) of two integers.
V(ix, iy) == <<F(ix), F(iy)>>

VSub(p, q) == <<FSub(p[1], q[1]), FSub(p[2], q[2])>>

VAdd(p, q) == <<FAdd(p[1], q[1]), FAdd(p[2], q[2])>>

VScale(p, s) == <<FMul(p[1], s), FMul(p[2], s)>>

dot(p, q) == FAdd(FMul(p[1], q[1]), FMul(p[2], q[2]))

length_squared(p) == dot(p, p)

length(p) == FSqrt(dot(p, p))

distance(p, q) == length(VSub(p, q))

distance_squared(p, q) == length_squared(VSub(p, q))

\* v scaled by the reciprocal of its length len, or the fallback when the
\* length is zero.
ScaleByRecip(v, len, fallback) ==
  IF len[1] = 0 THEN fallback ELSE VScale(v, FDiv(F(1), len))

\* v.try_normalize().unwrap_or(fallback).
try_normalize_or(v, fallback) ==
  CHOOSE r \in {ScaleByRecip(v, len, fallback) : len \in {length(v)}} : TRUE

\* DVec2::clamp: self.max(min).min(max), componentwise.
clamp(v, lo, hi) ==
  <<FMin(FMax(v[1], lo[1]), hi[1]), FMin(FMax(v[2], lo[2]), hi[2])>>

\* -------------------------------------------------------------- geom.rs

\* Where the code binds a value with `let` and goes on with it, the model
\* binds it as the element of a one-element set: x \in {e} computes e once,
\* before what follows, as the code does.

\* The two roots of solve_quadratic.
RootsFromSqrt(b, sqrt_d, two_a) ==
  <<FDiv(FSub(FNeg(b), sqrt_d), two_a), FDiv(FAdd(FNeg(b), sqrt_d), two_a)>>

\* solve_quadratic once its discriminant d is known: <<>> is None, <<t1, t2>>
\* is Some((t1, t2)).
Roots(a, b, d) ==
  IF FLt(d, Zero) THEN <<>>
  ELSE CHOOSE r \in {RootsFromSqrt(b, sqrt_d, FMul(F(2), a)) : sqrt_d \in {FSqrt(d)}} : TRUE

solve_quadratic(a, b, c) ==
  CHOOSE r \in {Roots(a, b, d) : d \in {FSub(FMul(b, b), FMul(FMul(F(4), a), c))}} : TRUE

\* The `.map(|solutions| ...)` of circle_intersect.
PointsAt(start, dir, solutions) ==
  IF solutions = <<>> THEN <<>>
  ELSE <<VAdd(start, VScale(dir, solutions[1])), VAdd(start, VScale(dir, solutions[2]))>>

circle_intersect(center, radius, start, dir) ==
  CHOOSE r \in
    {PointsAt(start, dir, solve_quadratic(abc[1], abc[2], abc[3])) : abc \in
      {<<length_squared(dir),
         FMul(F(2), dot(dir, VSub(start, center))),
         FSub(distance_squared(start, center), FMul(radius, radius))>>}} : TRUE

\* The line form <<a, b, c>> of a*x + b*y + c, each coefficient times
\* `coefficient` = -sqrt(a*a + b*b) * signum(c).
ScaleLine(a, b, c, coefficient) ==
  <<FMul(a, coefficient), FMul(b, coefficient), FMul(c, coefficient)>>

LineFrom(a, b, c) ==
  CHOOSE l \in
    {ScaleLine(a, b, c, coefficient) : coefficient \in
      {FMul(FNeg(FSqrt(FAdd(FMul(a, a), FMul(b, b)))), Signum(c))}} : TRUE

\* The first (a, b, c) of closest_point_below_line_on_circle.
LineForm(start, dir) ==
  CHOOSE l \in
    {LineFrom(abc[1], abc[2], abc[3]) : abc \in
      {<<dir[2], FNeg(dir[1]), FSub(FMul(start[2], dir[1]), FMul(start[1], dir[2]))>>}} : TRUE

LineValue(l, q) == FAdd(FAdd(FMul(l[1], q[1]), FMul(l[2], q[2])), l[3])

\* The second (a, b, c): negated when the first is negative at center.
Orient(l, center) ==
  IF FLt(LineValue(l, center), Zero) THEN <<FNeg(l[1]), FNeg(l[2]), FNeg(l[3])>> ELSE l

\* NearerOf with the comparison of line 23 the other way round.
NearerOf_Farther(hit, point) ==
  IF hit = <<>> THEN [p |-> point, printed |-> 1]
  ELSE IF FLt(distance_squared(hit[2], point), distance_squared(hit[1], point))
       THEN [p |-> hit[1], printed |-> 0]
       ELSE [p |-> hit[2], printed |-> 0]

\* The `match circle_intersect(..)`: the nearer intersection, or the point and
\* one diagnostic line ("This shouldn't really happen").
NearerOf(hit, point) ==
  IF hit = <<>> THEN [p |-> point, printed |-> 1]
  ELSE IF FLt(distance_squared(hit[1], point), distance_squared(hit[2], point))
       THEN [p |-> hit[1], printed |-> 0]
       ELSE [p |-> hit[2], printed |-> 0]

\* closest_point_below_line_on_circle from its oriented line l on.
ClosestOn(l, center, radius, start, dir, point) ==
  IF FLt(Zero, LineValue(l, point))
  THEN [p |-> point, printed |-> 0]
  ELSE NearerOf(circle_intersect(center, radius, start, dir), point)

\* The returned point p, and the number of diagnostic lines the call printed.
closest_point_below_line_on_circle(center, radius, start, dir, point) ==
  CHOOSE r \in
    {ClosestOn(l, center, radius, start, dir, point) : l \in
      {Orient(l0, center) : l0 \in {LineForm(start, dir)}}} : TRUE

\* -------------------------------------------------------------- main.rs

RULER_HALF_WIDTH == 40
INITIAL_LENGTH == 400
CONTROL_RADIUS == 20
MIN_LENGTH == 200

\* The point an arc clamp returned after the clamps that left prev, and the
\* diagnostic lines printed so far.
AddPrinted(prev, r) == [p |-> r.p, printed |-> prev.printed + r.printed]

ThenClamp(prev, other, old_distance, start, dir) ==
  AddPrinted(prev, closest_point_below_line_on_circle(other, old_distance, start, dir, prev.p))

\* The four screen-edge arc clamps of handle_drag, in the code's order: each
\* works on the point the one before returned.  (The one-element sets bind each
\* clamp's value before the next clamp is applied to it.)
ArcClamps(other, old_distance, ss, cand) ==
  CHOOSE c4 \in
    {ThenClamp(c3, other, old_distance, ss, UnitY) : c3 \in
      {ThenClamp(c2, other, old_distance, Zero2, UnitY) : c2 \in
        {ThenClamp(c1, other, old_distance, ss, UnitX) : c1 \in
          {ThenClamp([p |-> cand, printed |-> 0], other, old_distance, Zero2, UnitX)}}}} : TRUE

\* handle_drag keeps its point in new_vec, which starts as the cursor.  h
\* records the arguments and the values new_vec takes: cand (the cursor, or the
\* distance-locked point before the arc clamps), arc (after the arc clamps),
\* locked (after the angle lock), grown (after the minimum length), result
\* (after the final clamp: the value left in *dragging); printed counts the
\* diagnostic lines.
DragStart(dragged, other, cursor, fix_distance, fix_angle) ==
  [end |-> "None", dragged |-> dragged, other |-> other, cursor |-> cursor,
   fix_distance |-> fix_distance, fix_angle |-> fix_angle,
   cand |-> cursor, arc |-> cursor, printed |-> 0,
   locked |-> cursor, grown |-> cursor, result |-> cursor]

SetArc(h, cand, arc) ==
  [h EXCEPT !.cand = cand, !.arc = arc.p, !.printed = arc.printed,
            !.locked = arc.p, !.grown = arc.p, !.result = arc.p]

FixDistanceAt(h, ss, old_distance) ==
  CHOOSE r \in
    {SetArc(h, cand, ArcClamps(h.other, old_distance, ss, cand)) : cand \in
      {VAdd(h.other,
            VScale(try_normalize_or(VSub(h.cursor, h.other), UnitX), old_distance))}} : TRUE

\* Lines 414-423.
FixDistance(h, ss) ==
  IF h.fix_distance
  THEN CHOOSE r \in
         {FixDistanceAt(h, ss, old_distance) : old_distance \in
           {distance(h.dragged, h.other)}} : TRUE
  ELSE h

SetLocked(h, locked) == [h EXCEPT !.locked = locked, !.grown = locked, !.result = locked]

\* handle_drag without its lines 425-428.
FixAngle_Omitted(h) == h

\* Lines 425-428.
FixAngle(h) ==
  IF h.fix_angle
  THEN SetLocked(h, VAdd(h.other, VScale(try_normalize_or(VSub(h.dragged, h.other), UnitX),
                                         distance(h.arc, h.other))))
  ELSE h

SetGrown(h, grown) == [h EXCEPT !.grown = grown, !.result = grown]

\* handle_drag without its lines 430-433.
MinLength_Omitted(h) == h

\* Lines 430-433.
MinLength(h) ==
  IF FLt(distance_squared(h.other, h.locked), FMul(F(MIN_LENGTH), F(MIN_LENGTH)))
  THEN SetGrown(h, VAdd(h.other, VScale(try_normalize_or(VSub(h.locked, h.other), UnitX),
                                        F(MIN_LENGTH))))
  ELSE h

\* handle_drag without its line 435.
FinalClamp_Omitted(h, ss) == h

\* Line 435.
FinalClamp(h, ss) == [h EXCEPT !.result = clamp(h.grown, Zero2, ss)]

\* The four steps of handle_drag in the code's order, each on the value the
\* one before left.
handle_drag(dragged, other, cursor, ss, fix_distance, fix_angle) ==
  CHOOSE h4 \in
    {FinalClamp(h3, ss) : h3 \in
      {MinLength(h2) : h2 \in
        {FixAngle(h1) : h1 \in
          {FixDistance(h0, ss) : h0 \in
            {DragStart(dragged, other, cursor, fix_distance, fix_angle)}}}}} : TRUE

\* A cast to i16 that rounds down instead of toward zero.
AsI16_Floor(a) ==
  IF a[1] < 0 /\ F(Trunc(a)) # a THEN Trunc(a) - 1 ELSE Trunc(a)

\* `v as i16` and `v as u16` of an f64: toward zero, saturating.
AsI16(a) == LET t == Trunc(a) IN IF t < -32768 THEN -32768 ELSE IF t > 32767 THEN 32767 ELSE t

AsU16(a) == LET t == Trunc(a) IN IF t < 0 THEN 0 ELSE IF t > 65535 THEN 65535 ELSE t

compute_window_geometry(from_, to_) ==
  LET min_x == FSub(FMin(from_[1], to_[1]), F(RULER_HALF_WIDTH))
      max_x == FAdd(FMax(from_[1], to_[1]), F(RULER_HALF_WIDTH))
      min_y == FSub(FMin(from_[2], to_[2]), F(RULER_HALF_WIDTH))
      max_y == FAdd(FMax(from_[2], to_[2]), F(RULER_HALF_WIDTH))
  IN [x |-> AsI16(min_x), y |-> AsI16(min_y),
      w |-> AsU16(FSub(max_x, min_x)), h |-> AsU16(FSub(max_y, min_y))]

\* `DVec2 as (i16, i16)`: the rectangle of one control handle in window
\* coordinates (p is already relative to the window position).
HandleRect(p) ==
  [x |-> AsI16(FSub(p[1], F(CONTROL_RADIUS))), y |-> AsI16(FSub(p[2], F(CONTROL_RADIUS))),
   w |-> AsU16(FMul(F(CONTROL_RADIUS), F(2))), h |-> AsU16(FMul(F(CONTROL_RADIUS), F(2)))]

\* The two input rectangles set_window_shape_from_points(from, to) installs.
set_window_shape_from_points(from_, to_) == <<HandleRect(from_), HandleRect(to_)>>

\* The root window's geometry, as get_window_geometry(root) returns it.
root_geom == [w |-> 640, h |-> 480]

screen_size == V(root_geom.w, root_geom.h)

\* The drag state a ButtonPress with detail 1 at cursor leaves.
PressTarget(cursor, from_, to_, dragging_) ==
  IF FLt(distance_squared(cursor, from_), F(6400)) THEN "From"
  ELSE IF FLt(distance_squared(cursor, to_), F(6400)) THEN "To"
  ELSE dragging_

\* ---------------------------------------------------------------- bounds

\* Calls of handle_drag per behaviour.
MaxDrags == 2

\* Pointer positions (root_x, root_y) of the events of the event loop: the two
\* initial endpoints and a point of the bottom edge.
LoopCursors == {<<160, 280>>, <<560, 280>>, <<300, 480>>}

\* Pointer positions of the drag steps: the two initial endpoints, a point of
\* the left edge, the point straight below the initial `to` on the bottom
\* edge, a point nearer than MIN_LENGTH to it, and a point off the screen.
Cursors == {<<160, 280>>, <<560, 280>>, <<0, 280>>, <<560, 480>>, <<380, 200>>, <<700, 500>>}

\* Arguments of the calls of closest_point_below_line_on_circle on its own:
\* centres, the radius, lines parallel to an axis at these signed offsets from
\* the centre (crossing the circle, touching it, missing it, through the
\* centre), the coordinate of the line's start along the line, and points.
PureCenters == {<<0, 0>>, <<30, 10>>}

PureRadii == {25}

PureOffsets == {-20, 7, 15, -25, 30, 0}

PureAlong == {0, 5}

PurePoints == {<<100, -30>>, <<0, 0>>, <<-40, 40>>, <<10, 24>>, <<31, 10>>, <<45, -10>>}

\* Endpoints of the calls of compute_window_geometry on its own, in quarters
\* of a pixel.
PureEnds == {<<400, 400>>, <<1200, 400>>, <<0, 0>>, <<2560, 1920>>, <<42, 1445>>, <<1447, 1131>>}

\* Event details: buttons, and key codes (0x18 quits).
Buttons == {1, 3}

KeyCodes == {24, 38}

\* ----------------------------------------------------------------- state

VARIABLES
  from,      \* main's `from`: DVec2
  to,        \* main's `to`: DVec2
  dragging,  \* main's `dragging`: "From", "To" or "None"
  first,     \* main's `first`
  window,    \* the geometry last requested for the window (and the surface)
  shape,     \* the input shape last set: "unset" or two rectangles
  running,   \* FALSE once the loop has broken
  call,      \* the last call of handle_drag: its arguments and what it computed
  drags,     \* calls of handle_drag so far
  pure       \* a call of a function on its own: its arguments and its result

vars == <<from, to, dragging, first, window, shape, running, call, drags, pure>>

NoCall == [end |-> "None"]

NoPure == [fn |-> "none"]

\* main, lines 277-298: the state before the first event.
Placed ==
  LET from_x == FAdd(FDiv(FSub(F(root_geom.w), F(INITIAL_LENGTH)), F(2)), F(RULER_HALF_WIDTH))
      from_y == FAdd(FDiv(F(root_geom.h), F(2)), F(RULER_HALF_WIDTH))
  IN /\ from = <<from_x, from_y>>
     /\ to = <<FAdd(from_x, F(INITIAL_LENGTH)), from_y>>
     /\ dragging = "None"
     /\ first = TRUE
     /\ window = [x |-> 0, y |-> 0,
                  w |-> AsU16(FAdd(F(INITIAL_LENGTH), FMul(F(RULER_HALF_WIDTH), F(2)))),
                  h |-> AsU16(FMul(F(RULER_HALF_WIDTH), F(2)))]
     /\ shape = "unset"
     /\ running = TRUE
     /\ call = NoCall
     /\ drags = 0

Init == Placed /\ pure = NoPure

\* ------------------------------------------------------------ event loop

\* Expose: the first one places the window (update with force), every one redraws.
Expose ==
  /\ running
  /\ window' = IF first THEN compute_window_geometry(from, to) ELSE window
  /\ first' = FALSE
  /\ UNCHANGED <<from, to, dragging, shape, running, call, drags, pure>>

\* ButtonPress: button 1 within 80 px of an endpoint starts dragging it.
ButtonPress(detail, cursor) ==
  /\ running
  /\ dragging' = IF detail = 1 THEN PressTarget(V(cursor[1], cursor[2]), from, to, dragging)
                 ELSE dragging
  /\ UNCHANGED <<from, to, first, window, shape, running, call, drags, pure>>

\* A MotionNotify that writes the result of handle_drag to both endpoints.
Dragged_Both(h, elapsed) ==
  /\ from' = h.result
  /\ to' = h.result
  /\ call' = [h EXCEPT !.end = dragging]
  /\ window' = IF elapsed THEN compute_window_geometry(h.result, h.result) ELSE window

\* What MotionNotify does with the call h of handle_drag: the dragged endpoint
\* takes the result, and update without force moves the window when more than
\* 16 ms have elapsed since the last update.
Dragged(h, elapsed) ==
  /\ from' = IF dragging = "From" THEN h.result ELSE from
  /\ to' = IF dragging = "To" THEN h.result ELSE to
  /\ call' = [h EXCEPT !.end = dragging]
  /\ window' = IF elapsed
               THEN compute_window_geometry(IF dragging = "From" THEN h.result ELSE from,
                                            IF dragging = "To" THEN h.result ELSE to)
               ELSE window

\* MotionNotify while an endpoint is dragged.
MotionDrag(cursor, fix_distance, fix_angle, elapsed) ==
  /\ running
  /\ dragging # "None"
  /\ drags < MaxDrags
  /\ \E h \in {handle_drag(IF dragging = "From" THEN from ELSE to,
                           IF dragging = "From" THEN to ELSE from,
                           V(cursor[1], cursor[2]), screen_size, fix_distance, fix_angle)} :
       Dragged(h, elapsed)
  /\ drags' = drags + 1
  /\ UNCHANGED <<dragging, first, shape, running, pure>>

\* MotionNotify while nothing is dragged.
MotionIdle ==
  /\ running
  /\ dragging = "None"
  /\ UNCHANGED vars

\* ButtonRelease: button 1 ends the drag, places the window (update with force)
\* and sets the input shape to the two handles.
ButtonRelease(detail) ==
  /\ running
  /\ IF detail = 1
     THEN \E geometry \in {compute_window_geometry(from, to)} :
            /\ dragging' = "None"
            /\ window' = geometry
            /\ shape' = set_window_shape_from_points(VSub(from, V(geometry.x, geometry.y)),
                                                     VSub(to, V(geometry.x, geometry.y)))
     ELSE UNCHANGED <<dragging, window, shape>>
  /\ UNCHANGED <<from, to, first, running, call, drags, pure>>

\* KeyPress: key code 0x18 breaks the loop.
KeyPress(detail) ==
  /\ running
  /\ running' = (detail # 24)
  /\ UNCHANGED <<from, to, dragging, first, window, shape, call, drags, pure>>

\* ClientMessage: WM_DELETE_WINDOW breaks the loop.
ClientMessage(wm_del_window) ==
  /\ running
  /\ running' = ~wm_del_window
  /\ UNCHANGED <<from, to, dragging, first, window, shape, call, drags, pure>>

Next ==
  \/ Expose
  \/ \E detail \in Buttons, cursor \in LoopCursors : ButtonPress(detail, cursor)
  \/ \E cursor \in LoopCursors, fix_distance \in BOOLEAN, fix_angle \in BOOLEAN, elapsed \in BOOLEAN :
       MotionDrag(cursor, fix_distance, fix_angle, elapsed)
  \/ MotionIdle
  \/ \E detail \in Buttons : ButtonRelease(detail)
  \/ \E detail \in KeyCodes : KeyPress(detail)
  \/ \E wm_del_window \in BOOLEAN : ClientMessage(wm_del_window)

Spec == Init /\ [][Next]_vars

\* ------------------------------------------------------------ drag steps

\* The pixel (root_x, root_y) under the endpoint `end`.
PixelOf(end) ==
  IF end = "From" THEN <<Trunc(from[1]), Trunc(from[2])>> ELSE <<Trunc(to[1]), Trunc(to[2])>>

\* The drags of the event loop: button-1 presses on an endpoint, pointer
\* motion to the points of Cursors with the window following, and button-1
\* releases.
NextDrag ==
  \/ \E end \in {"From", "To"} : ButtonPress(1, PixelOf(end))
  \/ \E cursor \in Cursors, fix_distance \in BOOLEAN, fix_angle \in BOOLEAN :
       MotionDrag(cursor, fix_distance, fix_angle, TRUE)
  \/ ButtonRelease(1)

SpecDrag == Init /\ [][NextDrag]_vars

\* ----------------------------------------------------- calls on their own

\* The calls of closest_point_below_line_on_circle: a line parallel to the x
\* axis ("h") or to the y axis ("v").
ClosestCalls ==
  {[fn |-> "closest", done |-> FALSE, center |-> c, radius |-> r,
    start |-> IF axis = "h" THEN <<c[1] + along, c[2] + off>>
              ELSE <<c[1] + off, c[2] + along>>,
    dir |-> IF axis = "h" THEN <<1, 0>> ELSE <<0, 1>>, point |-> q] :
   c \in PureCenters, r \in PureRadii, off \in PureOffsets, along \in PureAlong,
   axis \in {"h", "v"}, q \in PurePoints}

GeometryCalls ==
  {[fn |-> "geometry", done |-> FALSE, from4 |-> p, to4 |-> q] : p \in PureEnds, q \in PureEnds}

\* The point of pixel coordinates p / 4.
Quarters(p) == <<FDiv(F(p[1]), F(4)), FDiv(F(p[2]), F(4))>>

InitPure == Placed /\ pure \in ClosestCalls \cup GeometryCalls

CallClosest ==
  /\ pure.fn = "closest" /\ ~pure.done
  /\ \E r \in {closest_point_below_line_on_circle(
                 V(pure.center[1], pure.center[2]), F(pure.radius),
                 V(pure.start[1], pure.start[2]), V(pure.dir[1], pure.dir[2]),
                 V(pure.point[1], pure.point[2]))} :
       pure' = [fn |-> "closest", done |-> TRUE, center |-> pure.center,
                radius |-> pure.radius, start |-> pure.start, dir |-> pure.dir,
                point |-> pure.point, p |-> r.p, printed |-> r.printed]
  /\ UNCHANGED <<from, to, dragging, first, window, shape, running, call, drags>>

CallGeometry ==
  /\ pure.fn = "geometry" /\ ~pure.done
  /\ pure' = [fn |-> "geometry", done |-> TRUE, from4 |-> pure.from4, to4 |-> pure.to4,
              rect |-> compute_window_geometry(Quarters(pure.from4), Quarters(pure.to4))]
  /\ UNCHANGED <<from, to, dragging, first, window, shape, running, call, drags>>

NextPure == CallClosest \/ CallGeometry

SpecPure == InitPure /\ [][NextPure]_vars

\* --------------------------------------------------------------- claims

\* handle_drag has been called.
Called == call.end # "None"

\* 0 <= p.x <= screen_size.x and 0 <= p.y <= screen_size.y.
InScreen(p) ==
  /\ ~FLt(p[1], Zero) /\ ~FLt(screen_size[1], p[1])
  /\ ~FLt(p[2], Zero) /\ ~FLt(screen_size[2], p[2])

\* C1: after every call of handle_drag the result is at least MIN_LENGTH from
\* the anchor, and in every state the drags reach the two endpoints are at
\* least MIN_LENGTH apart.
C1_MinLengthKept ==
  /\ Called => ~FLt(distance(call.other, call.result), F(MIN_LENGTH))
  /\ ~FLt(distance(from, to), F(MIN_LENGTH))

\* C2: after every call of handle_drag, whatever the locks and the cursor, the
\* result lies within the screen rectangle, edges included; so do both
\* endpoints in every state the drags reach.
C2_WithinScreen ==
  /\ Called => InScreen(call.result)
  /\ InScreen(from) /\ InScreen(to)

\* A call with the cursor off the screen, whose last clamp moved the point.
C2_Witness ==
  /\ Called
  /\ ~InScreen(call.cursor)
  /\ call.result # call.grown

\* C3: a call with fix_distance alone in which neither the arc clamps nor the
\* final clamp change the candidate returns the candidate, the point at the
\* pre-drag distance from the anchor along the cursor direction.
C3_DistanceKept ==
  (/\ Called
   /\ call.fix_distance /\ ~call.fix_angle
   /\ call.arc = call.cand
   /\ call.result = call.grown)
  => call.result = call.cand

\* u and v are parallel, to within 2^-4 of |u| |v|.
Parallel(u, v) ==
  ~FLt(FMul(FDiv(F(1), F(16)), FMul(length(u), length(v))),
       FMax(FSub(FMul(u[1], v[2]), FMul(u[2], v[1])),
            FSub(FMul(u[2], v[1]), FMul(u[1], v[2]))))

\* C4 as stated: for every call with fix_angle, result - anchor is parallel to
\* previousPoint - anchor.
C4_AlwaysParallel ==
  (Called /\ call.fix_angle)
  => Parallel(VSub(call.result, call.other), VSub(call.dragged, call.other))

\* C4, amended: for every call with fix_angle in which the final clamp leaves
\* the point unchanged and the point the angle lock works on is at least one
\* pixel from the anchor, result - anchor is parallel to previousPoint - anchor.
C4_ParallelUnclamped ==
  (/\ Called /\ call.fix_angle
   /\ call.result = call.grown
   /\ ~FLt(distance(call.arc, call.other), F(1)))
  => Parallel(VSub(call.result, call.other), VSub(call.dragged, call.other))

\* An angle-locked call on a ruler that is not parallel to an axis, which moved
\* the endpoint and whose final clamp changed nothing.
C4_Witness ==
  /\ Called /\ call.fix_angle
  /\ call.result = call.grown
  /\ ~FLt(distance(call.arc, call.other), F(1))
  /\ call.result # call.dragged
  /\ call.dragged[1] # call.other[1]
  /\ call.dragged[2] # call.other[2]

\* The point MIN_LENGTH from the anchor towards the cursor, or towards (1, 0)
\* when the cursor is the anchor.
Pushed(other, cursor) ==
  IF cursor = other THEN VAdd(other, VScale(UnitX, F(MIN_LENGTH)))
  ELSE VAdd(other, VScale(VScale(VSub(cursor, other),
                                 FDiv(F(1), length(VSub(cursor, other)))),
                          F(MIN_LENGTH)))

\* C5: with both locks clear the result is the cursor clamped to the screen
\* when the cursor is at least MIN_LENGTH from the anchor, and otherwise the
\* point MIN_LENGTH from the anchor towards the cursor (towards (1, 0) when
\* cursor = anchor), clamped to the screen.
C5_NoLocks ==
  (Called /\ ~call.fix_distance /\ ~call.fix_angle)
  => call.result =
       IF FLt(distance(call.other, call.cursor), F(MIN_LENGTH))
       THEN clamp(Pushed(call.other, call.cursor), Zero2, screen_size)
       ELSE clamp(call.cursor, Zero2, screen_size)

\* A call without locks whose cursor is nearer than MIN_LENGTH to the anchor
\* and is not the anchor.
C5_Witness ==
  /\ Called /\ ~call.fix_distance /\ ~call.fix_angle
  /\ call.cursor # call.other
  /\ FLt(distance(call.other, call.cursor), F(MIN_LENGTH))

\* The squared distance of two points with integer coordinates.
Dist2(p, q) == (p[1] - q[1]) * (p[1] - q[1]) + (p[2] - q[2]) * (p[2] - q[2])

\* For a call c of closest_point_below_line_on_circle with a line parallel to
\* an axis, in integers: the index of the coordinate the line fixes, the
\* line's signed offset from the centre, whether the point is strictly on the
\* centre's side, and the two points where the line meets the circle.
Fixed(c) == IF c.dir = <<1, 0>> THEN 2 ELSE 1

Offset(c) == c.start[Fixed(c)] - c.center[Fixed(c)]

CenterSide(c) ==
  (c.point[Fixed(c)] - c.start[Fixed(c)]) * (c.center[Fixed(c)] - c.start[Fixed(c)]) > 0

Meets(c) == Offset(c) * Offset(c) <= c.radius * c.radius

HalfChord(c) ==
  CHOOSE s \in 0..c.radius : s * s = c.radius * c.radius - Offset(c) * Offset(c)

Crossing(c, sign) ==
  IF Fixed(c) = 2 THEN <<c.center[1] + sign * HalfChord(c), c.start[2]>>
  ELSE <<c.start[1], c.center[2] + sign * HalfChord(c)>>

\* C6: for a line that does not pass through the centre,
\* closest_point_below_line_on_circle returns the point unchanged when it is
\* strictly on the centre's side of the line, and otherwise, when the line
\* meets the circle, the one of the two points where they meet that has the
\* smaller squared distance to the point.
C6_Closest ==
  (pure.fn = "closest" /\ pure.done /\ Offset(pure) # 0)
  => /\ CenterSide(pure) => pure.p = V(pure.point[1], pure.point[2])
     /\ (~CenterSide(pure) /\ Meets(pure))
        => \E sign \in {-1, 1} :
             /\ pure.p = V(Crossing(pure, sign)[1], Crossing(pure, sign)[2])
             /\ Dist2(Crossing(pure, sign), pure.point)
                  <= Dist2(Crossing(pure, -sign), pure.point)

\* The spec's example: centre (0,0), radius 25, line y = -20, point (100,-30)
\* gives (15,-20).
C6_Witness ==
  /\ pure.fn = "closest" /\ pure.done
  /\ pure.center = <<0, 0>> /\ pure.radius = 25
  /\ pure.start = <<0, -20>> /\ pure.dir = <<1, 0>>
  /\ pure.point = <<100, -30>>
  /\ ~CenterSide(pure)
  /\ pure.p = V(15, -20)

\* n / d rounded toward zero, d > 0.
TruncDiv(n, d) == IF n < 0 THEN -((-n) \div d) ELSE n \div d

Least(a, b) == IF a < b THEN a ELSE b

Most(a, b) == IF a < b THEN b ELSE a

\* C7: compute_window_geometry returns x = trunc(min x - 40),
\* y = trunc(min y - 40), w = trunc((max x + 40) - (min x - 40)) and h likewise;
\* for endpoints with integer coordinates w = |from.x - to.x| + 80,
\* h = |from.y - to.y| + 80 and the rectangle holds both endpoints with the
\* margin on every side.  (Coordinates in quarters of a pixel.)
C7_Geometry ==
  (pure.fn = "geometry" /\ pure.done)
  => LET lo_x == Least(pure.from4[1], pure.to4[1])
         hi_x == Most(pure.from4[1], pure.to4[1])
         lo_y == Least(pure.from4[2], pure.to4[2])
         hi_y == Most(pure.from4[2], pure.to4[2])
         whole == \A i \in {1, 2} : pure.from4[i] % 4 = 0 /\ pure.to4[i] % 4 = 0
     IN /\ pure.rect.x = TruncDiv(lo_x - 4 * RULER_HALF_WIDTH, 4)
        /\ pure.rect.y = TruncDiv(lo_y - 4 * RULER_HALF_WIDTH, 4)
        /\ pure.rect.w = TruncDiv((hi_x + 4 * RULER_HALF_WIDTH) - (lo_x - 4 * RULER_HALF_WIDTH), 4)
        /\ pure.rect.h = TruncDiv((hi_y + 4 * RULER_HALF_WIDTH) - (lo_y - 4 * RULER_HALF_WIDTH), 4)
        /\ whole =>
             /\ 4 * pure.rect.w = (hi_x - lo_x) + 8 * RULER_HALF_WIDTH
             /\ 4 * pure.rect.h = (hi_y - lo_y) + 8 * RULER_HALF_WIDTH
             /\ 4 * pure.rect.x <= lo_x - 4 * RULER_HALF_WIDTH
             /\ 4 * pure.rect.y <= lo_y - 4 * RULER_HALF_WIDTH
             /\ 4 * (pure.rect.x + pure.rect.w) >= hi_x + 4 * RULER_HALF_WIDTH
             /\ 4 * (pure.rect.y + pure.rect.h) >= hi_y + 4 * RULER_HALF_WIDTH

\* The spec's example: from (100,100), to (300,100) gives {60, 60, 280, 80}.
C7_Witness ==
  /\ pure.fn = "geometry" /\ pure.done
  /\ pure.from4 = <<400, 400>> /\ pure.to4 = <<1200, 400>>
  /\ pure.rect = [x |-> 60, y |-> 60, w |-> 280, h |-> 80]

\* C8: in every call of closest_point_below_line_on_circle made by
\* handle_drag the no-intersection branch is not taken: no call of handle_drag
\* prints the diagnostic line.
C8_NeverPrinted == Called => call.printed = 0

\* 0 < p.x < screen_size.x and 0 < p.y < screen_size.y.
StrictlyInside(p) ==
  /\ FLt(Zero, p[1]) /\ FLt(p[1], screen_size[1])
  /\ FLt(Zero, p[2]) /\ FLt(p[2], screen_size[2])

\* C9: with fix_distance and the anchor anywhere in the screen rectangle, a
\* distance-locked candidate strictly inside the screen comes out of the four
\* arc clamps unchanged.
C9_InsideUnchanged ==
  (Called /\ call.fix_distance /\ StrictlyInside(call.cand))
  => call.arc = call.cand

\* This step called handle_drag.
DragCall == drags' = drags + 1

\* This step is a button-1 press at a point within 80 px of the endpoint `end`.
PressNear(end) ==
  \E cursor \in LoopCursors :
    /\ ButtonPress(1, cursor)
    /\ FLt(distance(V(cursor[1], cursor[2]), IF end = "From" THEN from ELSE to), F(80))

\* The parts of C10 that hold as stated: an endpoint changes only in a step
\* that calls handle_drag; such a step is taken in drag state From or To,
\* leaves the drag state, and changes only the endpoint the drag state names,
\* which takes the result of the call; a drag state is entered only by a
\* button-1 press within 80 px of its endpoint.
DragFrame ==
  /\ (from' # from \/ to' # to) => DragCall
  /\ DragCall =>
       /\ dragging \in {"From", "To"}
       /\ dragging' = dragging
       /\ call'.end = dragging
       /\ dragging = "From" => (to' = to /\ from' = call'.result /\ call'.other = to)
       /\ dragging = "To" => (from' = from /\ to' = call'.result /\ call'.other = from)
  /\ (dragging' # dragging /\ dragging' # "None") => PressNear(dragging')

\* C10 as stated: the above, and a drag state From or To is left only by a
\* button-1 release.
C10_LeftOnlyByRelease ==
  [][/\ DragFrame
     /\ (dragging # "None" /\ dragging' # dragging) => ButtonRelease(1)]_vars

\* C10, amended: the above, and a drag state From or To is left only by a
\* button-1 release, which leads to None, or by a button-1 press within 80 px
\* of the other endpoint, which leads to the other drag state.
C10_LeftByReleaseOrPress ==
  [][/\ DragFrame
     /\ (dragging # "None" /\ dragging' # dragging) =>
          \/ ButtonRelease(1) /\ dragging' = "None"
          \/ PressNear(dragging')]_vars

\* After a drag step that moved `to`, the drag state is From.
C10_Witness ==
  /\ Called
  /\ call.end = "To" /\ to = call.result /\ call.result # call.dragged
  /\ dragging = "From"

\* C11: a call with fix_distance and fix_angle, with the anchor and the
\* previous point inside the screen, distinct and at least MIN_LENGTH apart,
\* returns the previous point, whatever the cursor.
C11_BothLocksUnmoved ==
  (/\ Called
   /\ call.fix_distance /\ call.fix_angle
   /\ InScreen(call.other) /\ InScreen(call.dragged)
   /\ call.dragged # call.other
   /\ ~FLt(distance(call.dragged, call.other), F(MIN_LENGTH)))
  => call.result = call.dragged

====
